---- MODULE Spec2Model ----
(***************************************************************************)
(* Model of the in-memory game record store of src/src/index.js: the       *)
(* module-level variables `games` and `currentId` and the Express route    *)
(* handlers POST /games, GET /games, GET /games/:id, PUT /games/:id and    *)
(* DELETE /games/:id.  Every handler runs to completion before the next    *)
(* request is served (one synchronous callback per request), so each       *)
(* handler is one action.                                                  *)
(*                                                                         *)
(* JSON values of a request body keep their JavaScript type, because the   *)
(* handlers test them with ToBoolean (`!title`, `if (title)`, `x || null`).*)
(* The path parameter :id is a string, converted with parseInt.            *)
(***************************************************************************)
EXTENDS Integers, Sequences, FiniteSets, TLC

\* Cap on the id counter: a successful create is modelled only while
\* currentId < MaxId (the counter of the program is unbounded).
MaxId == 3

(***************************************************************************)
(* JavaScript values.  A value is a record with a type tag t, a string     *)
(* payload s and a numeric payload n (unused payloads are "" and 0).       *)
(***************************************************************************)
Undefined == [t |-> "undefined", s |-> "", n |-> 0]

Null == [t |-> "null", s |-> "", n |-> 0]

Str(x) == [t |-> "string", s |-> x, n |-> 0]

Num(k) == [t |-> "number", s |-> "", n |-> k]

\* ToBoolean as applied by `!x`, `if (x)` and `x || y`.
ToBoolean(v) ==
  CASE v.t = "undefined" -> FALSE
    [] v.t = "null"      -> FALSE
    [] v.t = "string"    -> v.s # ""
    [] v.t = "number"    -> v.n # 0
    [] OTHER             -> TRUE

(***************************************************************************)
(* parseInt(string) with no radix: leading white space is skipped, one     *)
(* sign is read, a 0x / 0X prefix selects radix 16, then the longest run   *)
(* of digits of the radix is read; no digit at all gives NaN.  A string is *)
(* a sequence of one-character strings.                                    *)
(***************************************************************************)
NaN == [nan |-> TRUE, n |-> 0]

Number(k) == [nan |-> FALSE, n |-> k]

DigitChars == <<"0", "1", "2", "3", "4", "5", "6", "7", "8", "9",
                "a", "b", "c", "d", "e", "f">>

\* The value of character c as a digit, 16 when it is no digit.
DigitVal(c) ==
  IF \E i \in 1..16 : DigitChars[i] = c
    THEN (CHOOSE i \in 1..16 : DigitChars[i] = c) - 1
    ELSE 16

RECURSIVE TrimLeft(_)
TrimLeft(s) ==
  IF s # <<>> /\ Head(s) = " " THEN TrimLeft(Tail(s)) ELSE s

\* Reads digits of `radix` from the front of s; acc is the value so far and
\* seen says whether a digit was read.
RECURSIVE ReadDigits(_, _, _, _)
ReadDigits(s, radix, acc, seen) ==
  IF s # <<>> /\ DigitVal(Head(s)) < radix
    THEN ReadDigits(Tail(s), radix, acc * radix + DigitVal(Head(s)), TRUE)
    ELSE IF seen THEN Number(acc) ELSE NaN

HasHexPrefix(s) ==
  Len(s) >= 2 /\ s[1] = "0" /\ s[2] \in {"x", "X"}

ParseUnsigned(s) ==
  IF HasHexPrefix(s)
    THEN ReadDigits(Tail(Tail(s)), 16, 0, FALSE)
    ELSE ReadDigits(s, 10, 0, FALSE)

Negate(r) == IF r.nan THEN r ELSE Number(0 - r.n)

ParseInt(str) ==
  LET s == TrimLeft(str) IN
  IF s # <<>> /\ Head(s) = "-" THEN Negate(ParseUnsigned(Tail(s)))
  ELSE IF s # <<>> /\ Head(s) = "+" THEN ParseUnsigned(Tail(s))
  ELSE ParseUnsigned(s)

(***************************************************************************)
(* Request inputs.  A body is the parsed JSON object of the request; a     *)
(* key the object lacks destructures to undefined.                         *)
(***************************************************************************)
Titles == {Undefined, Str(""), Str("A"), Str("B")}

Platforms == {Undefined, Str(""), Str("P")}

ReleaseYears == {Undefined, Num(0), Num(1998)}

ImageUrls == {Undefined, Null, Str("u")}

Bodies == [title : Titles, platform : Platforms,
           releaseYear : ReleaseYears, imageUrl : ImageUrls]

\* Values of the path parameter :id, as strings.
IdParams == { <<"1">>, <<"2", "a">>, <<"0", "x", "3">>, <<"a">> }

\* parseInt of every path parameter of the model, computed once.
ParsedIds == [str \in IdParams |-> ParseInt(str)]

\* g.id === parseInt(req.params.id): NaN is equal to nothing.
IdMatches(g, str) == ~ParsedIds[str].nan /\ g.id = ParsedIds[str].n

(***************************************************************************)
(* The store and the observable outcome of the last request.               *)
(***************************************************************************)
VARIABLES
  games,       \* the array `games`, in array order
  currentId,   \* the counter `currentId`
  lastOp,      \* the handler that served the last request
  lastId,      \* its :id path parameter (<<>> when the route has none)
  lastBody,    \* its JSON body, as a sequence of length 0 or 1; kept only
               \* by the single-request specification SpecReq
  resp,        \* the response it sent
  createdIds,  \* history: ids returned by the successful creates, in order
  deletedIds,  \* history: ids of the successfully deleted records
  nDeleted     \* history: number of successful deletes

vars == <<games, currentId, lastOp, lastId, lastBody, resp, createdIds, deletedIds, nDeleted>>

\* A response: status code, the `error` member of an error body, the record
\* of a body that is one record (a sequence of length 0 or 1), and the
\* records of a body that is the array of records.
Response(status, error, game, list) ==
  [status |-> status, error |-> error, game |-> game, list |-> list]

ErrorResponse(status, message) == Response(status, message, <<>>, <<>>)

GameResponse(status, g) == Response(status, "", <<g>>, <<>>)

\* `!title || !platform` of the create handler.
MissingRequiredTitleOnly(title, platform) == ~ToBoolean(title)

MissingRequiredBoth(title, platform) == ~ToBoolean(title) /\ ~ToBoolean(platform)

MissingRequired(title, platform) == ~ToBoolean(title) \/ ~ToBoolean(platform)

\* `v || null` of the create handler.
OrNullKeep(v) == v

OrNull(v) == IF ToBoolean(v) THEN v ELSE Null

\* The value of currentId after `currentId++`.
PostIncrementStuck(c) == c

PostIncrement(c) == c + 1

\* games.push(newGame)
PushFront(gs, g) == <<g>> \o gs

Push(gs, g) == Append(gs, g)

\* A findIndex that takes the first record whose id is not below the number.
FindIndexAtLeast(gs, str) ==
  IF \E i \in 1..Len(gs) : ParsedIds[str].nan \/ gs[i].id >= ParsedIds[str].n
    THEN CHOOSE i \in 1..Len(gs) :
           /\ ParsedIds[str].nan \/ gs[i].id >= ParsedIds[str].n
           /\ \A j \in 1..(i - 1) : ~(ParsedIds[str].nan \/ gs[j].id >= ParsedIds[str].n)
    ELSE 0

\* games.findIndex(...) and games.find(...): the linear scan from the front,
\* as a 1-based index; 0 stands for -1 / undefined (no record matches).
RECURSIVE FindFrom(_, _, _)
FindFrom(gs, str, i) ==
  IF i > Len(gs) THEN 0
  ELSE IF IdMatches(gs[i], str) THEN i
  ELSE FindFrom(gs, str, i + 1)

FindIndex(gs, str) == FindFrom(gs, str, 1)

\* games.splice(index, 1): the array without the element at index.
SpliceNone(gs, i) == gs

SpliceFirst(gs, i) == Tail(gs)

Splice(gs, i) == SubSeq(gs, 1, i - 1) \o SubSeq(gs, i + 1, Len(gs))

\* `if (x) game.x = x` of the update handler: the field's new value.
UpdateFieldAlways(old, new) == new

UpdateFieldIfPresent(old, new) == IF new # Undefined THEN new ELSE old

UpdateField(old, new) == IF ToBoolean(new) THEN new ELSE old

\* The record after the four conditional assignments of the update handler.
UpdateGameAll(g, body) ==
  [id          |-> g.id,
   title       |-> UpdateField(g.title, body.title),
   platform    |-> UpdateField(g.platform, body.title),
   releaseYear |-> UpdateField(g.releaseYear, body.releaseYear),
   imageUrl    |-> UpdateField(g.imageUrl, body.imageUrl)]

UpdateGame(g, body) ==
  [id          |-> g.id,
   title       |-> UpdateField(g.title, body.title),
   platform    |-> UpdateField(g.platform, body.platform),
   releaseYear |-> UpdateField(g.releaseYear, body.releaseYear),
   imageUrl    |-> UpdateField(g.imageUrl, body.imageUrl)]

Init ==
  /\ games = <<>>
  /\ currentId = 1
  /\ lastOp = "none"
  /\ lastId = <<>>
  /\ lastBody = <<>>
  /\ resp = Response(0, "", <<>>, <<>>)
  /\ createdIds = <<>>
  /\ deletedIds = {}
  /\ nDeleted = 0

\* app.post("/games")
PostGames(body) ==
  /\ lastOp' = "post"
  /\ lastId' = <<>>
  /\ UNCHANGED <<deletedIds, nDeleted>>
  /\ IF MissingRequired(body.title, body.platform)
       THEN /\ resp' = ErrorResponse(400, "Titulo e plataforma sao obrigatorios")
            /\ UNCHANGED <<games, currentId, createdIds>>
       ELSE /\ currentId < MaxId
            /\ LET newGame == [id          |-> currentId,
                               title       |-> body.title,
                               platform    |-> body.platform,
                               releaseYear |-> OrNull(body.releaseYear),
                               imageUrl    |-> OrNull(body.imageUrl)]
               IN /\ currentId' = PostIncrement(currentId)
                  /\ games' = Push(games, newGame)
                  /\ resp' = GameResponse(201, newGame)
                  /\ createdIds' = Append(createdIds, newGame.id)

\* app.get("/games")
GetGames ==
  /\ lastOp' = "list"
  /\ lastId' = <<>>
  /\ resp' = Response(200, "", <<>>, games)
  /\ UNCHANGED <<games, currentId, createdIds, deletedIds, nDeleted>>

\* app.get("/games/:id")
GetGameById(id) ==
  /\ lastOp' = "get"
  /\ lastId' = id
  /\ LET index == FindIndex(games, id) IN
       resp' = IF index = 0
                 THEN ErrorResponse(404, "Jogo nao encontrado")
                 ELSE GameResponse(200, games[index])
  /\ UNCHANGED <<games, currentId, createdIds, deletedIds, nDeleted>>

\* app.put("/games/:id")
PutGame(id, body) ==
  /\ lastOp' = "put"
  /\ lastId' = id
  /\ LET index == FindIndex(games, id) IN
       IF index = 0
         THEN /\ resp' = ErrorResponse(404, "Jogo nao encontrado")
              /\ games' = games
         ELSE LET game == UpdateGame(games[index], body) IN
              /\ games' = [games EXCEPT ![index] = game]
              /\ resp' = GameResponse(200, game)
  /\ UNCHANGED <<currentId, createdIds, deletedIds, nDeleted>>

\* app.delete("/games/:id")
DeleteGame(id) ==
  /\ lastOp' = "delete"
  /\ lastId' = id
  /\ LET index == FindIndex(games, id) IN
       IF index = 0
         THEN /\ resp' = ErrorResponse(404, "Jogo nao encontrado")
              /\ UNCHANGED <<games, deletedIds, nDeleted>>
         ELSE /\ games' = Splice(games, index)
              /\ resp' = GameResponse(200, games[index])
              /\ deletedIds' = deletedIds \cup {games[index].id}
              /\ nDeleted' = nDeleted + 1
  /\ UNCHANGED <<currentId, createdIds>>

Next ==
  \/ \E body \in Bodies : PostGames(body) /\ UNCHANGED lastBody
  \/ GetGames /\ UNCHANGED lastBody
  \/ \E id \in IdParams : GetGameById(id) /\ UNCHANGED lastBody
  \/ \E id \in IdParams, body \in Bodies : PutGame(id, body) /\ UNCHANGED lastBody
  \/ \E id \in IdParams : DeleteGame(id) /\ UNCHANGED lastBody

\* Any sequence of requests, served one at a time, from the empty store.
Spec == Init /\ [][Next]_vars

(***************************************************************************)
(* SpecReq: one request, with its body kept, served from any store the     *)
(* program can hold.  A store holds, in ascending id order, records of     *)
(* some of the ids 1 .. currentId-1, each with the field values a create   *)
(* or an update can leave in it.                                           *)
(***************************************************************************)
Truthy(S) == {v \in S : ToBoolean(v)}

StoredGames(id) ==
  [id : {id}, title : Truthy(Titles), platform : Truthy(Platforms),
   releaseYear : {Null} \cup Truthy(ReleaseYears),
   imageUrl : {Null} \cup Truthy(ImageUrls)]

RECURSIVE GamesOver(_)
GamesOver(n) ==
  IF n = 0 THEN {<<>>}
  ELSE GamesOver(n - 1) \cup
       UNION {{Append(gs, g) : g \in StoredGames(n)} : gs \in GamesOver(n - 1)}

GameIds(gs) == {gs[i].id : i \in 1..Len(gs)}

InitReq ==
  /\ currentId \in 1..MaxId
  /\ games \in GamesOver(currentId - 1)
  /\ createdIds = [i \in 1..(currentId - 1) |-> i]
  /\ deletedIds = (1..(currentId - 1)) \ GameIds(games)
  /\ nDeleted = Cardinality(deletedIds)
  /\ lastOp = "none"
  /\ lastId = <<>>
  /\ lastBody = <<>>
  /\ resp = Response(0, "", <<>>, <<>>)

NextReq ==
  /\ lastOp = "none"
  /\ \/ \E body \in Bodies : PostGames(body) /\ lastBody' = <<body>>
     \/ GetGames /\ lastBody' = <<>>
     \/ \E id \in IdParams : GetGameById(id) /\ lastBody' = <<>>
     \/ \E id \in IdParams, body \in Bodies : PutGame(id, body) /\ lastBody' = <<body>>
     \/ \E id \in IdParams : DeleteGame(id) /\ lastBody' = <<>>

SpecReq == InitReq /\ [][NextReq]_vars

\* Every store reached from the empty store is one SpecReq starts from.
StoreShape ==
  /\ currentId \in 1..MaxId
  /\ games \in GamesOver(currentId - 1)
  /\ createdIds = [i \in 1..(currentId - 1) |-> i]
  /\ deletedIds = (1..(currentId - 1)) \ GameIds(games)
  /\ nDeleted = Cardinality(deletedIds)

(***************************************************************************)
(* Properties.                                                             *)
(***************************************************************************)
\* Bodies whose title and platform are both present (truthy).
ValidBodies ==
  [title : Truthy(Titles), platform : Truthy(Platforms),
   releaseYear : ReleaseYears, imageUrl : ImageUrls]

\* "Missing or empty": the key is absent, null, or the empty string.
MissingOrEmpty(v) == v.t \in {"undefined", "null"} \/ v = Str("")

StrictlyIncreasing(ids) ==
  \A i \in 1..Len(ids) : \A j \in (i + 1)..Len(ids) : ids[i] < ids[j]

\* A create with a truthy title and platform answers 201 with a fresh id.
C1_CreateSucceeds ==
  lastOp' = "post" =>
    \A body \in ValidBodies :
      PostGames(body) =>
        /\ resp'.status = 201
        /\ Len(resp'.game) = 1
        /\ \A k \in 1..Len(createdIds) : createdIds[k] < resp'.game[1].id

\* C1: in any sequence of requests, a create whose title and platform are
\* both truthy answers 201 with a record, and the ids returned by the
\* successful creates are strictly increasing (so none is handed out twice,
\* deletes in between or not).
C1_FreshIncreasingIds ==
  /\ [](StrictlyIncreasing(createdIds))
  /\ [][C1_CreateSucceeds]_vars

\* Two creates succeeded with a delete of the first record in between.
C1_Witness ==
  /\ Len(createdIds) >= 2
  /\ createdIds[1] \in deletedIds
  /\ lastOp = "post"
  /\ resp.status = 201

\* The body of the last request (SpecReq keeps it).
Body == lastBody[1]

\* C2: a create whose title or platform is missing or empty answers 400
\* with an error body and leaves the records and the id counter as they were.
C2_InvalidCreateRejected ==
  [][(/\ lastOp' = "post"
      /\ \/ MissingOrEmpty(lastBody'[1].title)
         \/ MissingOrEmpty(lastBody'[1].platform))
     => (/\ resp'.status = 400
         /\ resp'.error # ""
         /\ resp'.game = <<>>
         /\ games' = games
         /\ currentId' = currentId
         /\ createdIds' = createdIds)]_vars

\* A create with an empty title was refused by a store that holds records.
C2_Witness ==
  /\ lastOp = "post"
  /\ Body.title = Str("")
  /\ ToBoolean(Body.platform)
  /\ resp.status = 400
  /\ Len(games) >= 1

\* C3: the number of records (and of records List returns) is the number of
\* successful creates minus the number of successful deletes.
C3_LengthIsCreatesMinusDeletes ==
  /\ Len(games) = Len(createdIds) - nDeleted
  /\ lastOp = "list" => Len(resp.list) = Len(createdIds) - nDeleted

\* List answered after creates and a delete, with a record left.
C3_Witness ==
  /\ lastOp = "list"
  /\ nDeleted >= 1
  /\ Len(createdIds) >= 2
  /\ Len(resp.list) >= 1

\* The number parseInt gives for the last request's :id, 0 for NaN (no
\* record has id 0).
LastIdNumber == IF ParsedIds[lastId].nan THEN 0 ELSE ParsedIds[lastId].n

\* C4: once an id was deleted no record has it again, and GetById of it
\* answers 404, whatever requests were served since.
C4_DeletedStaysGone ==
  /\ \A i \in 1..Len(games) : games[i].id \notin deletedIds
  /\ (lastOp = "get" /\ LastIdNumber \in deletedIds) => resp.status = 404

\* GetById of a deleted id, after a later create succeeded.
C4_Witness ==
  /\ lastOp = "get"
  /\ LastIdNumber \in deletedIds
  /\ \E k \in 1..Len(createdIds) : createdIds[k] > LastIdNumber
  /\ Len(games) >= 1
  /\ resp.status = 404

\* The request supplies a truthy title and no other field.
OnlyTitle(body) ==
  /\ ToBoolean(body.title)
  /\ body.platform = Undefined
  /\ body.releaseYear = Undefined
  /\ body.imageUrl = Undefined

\* C5: a successful update that supplies only a non-empty title changes the
\* title of the record with that id and nothing else in the store.
C5_TitleOnlyUpdate ==
  [][(lastOp' = "put" /\ resp'.status = 200 /\ OnlyTitle(lastBody'[1]))
     => \E i \in 1..Len(games) :
          /\ IdMatches(games[i], lastId')
          /\ games' = [games EXCEPT ![i].title = lastBody'[1].title]
          /\ resp'.game = <<games'[i]>>
          /\ currentId' = currentId]_vars

\* A title-only update succeeded on the second of two records, which keeps
\* a release year and an image url.
C5_Witness ==
  /\ lastOp = "put"
  /\ resp.status = 200
  /\ OnlyTitle(Body)
  /\ Len(games) = 2
  /\ games[2] = resp.game[1]
  /\ games[2].releaseYear # Null
  /\ games[2].imageUrl # Null

\* The record a create built from body, as the claim describes it.
CreatedAsClaimed(g, body) ==
  /\ g.title = body.title
  /\ g.platform = body.platform
  /\ body.releaseYear = Undefined => g.releaseYear = Null
  /\ body.imageUrl = Undefined => g.imageUrl = Null
  /\ ToBoolean(body.releaseYear) => g.releaseYear = body.releaseYear
  /\ ToBoolean(body.imageUrl) => g.imageUrl = body.imageUrl

C6_CreateStoresNull ==
  (lastOp' = "post" /\ resp'.status = 201) =>
    \A body \in ValidBodies :
      PostGames(body) => CreatedAsClaimed(resp'.game[1], body)

C6_GetAfterCreate ==
  (/\ lastOp = "post"
   /\ resp.status = 201
   /\ lastOp' = "get"
   /\ ~ParsedIds[lastId'].nan
   /\ ParsedIds[lastId'].n = resp.game[1].id)
  => (resp'.status = 200 /\ resp'.game = resp.game)

\* C6: GetById of the id a create just returned answers the record the
\* create returned, field by field, absent optional fields being null.
C6_GetReturnsCreated ==
  [][C6_CreateStoresNull /\ C6_GetAfterCreate]_vars

\* GetById answered the most recently created record, whose optional fields
\* are null.
C6_Witness ==
  /\ lastOp = "get"
  /\ resp.status = 200
  /\ Len(createdIds) >= 2
  /\ resp.game[1].id = createdIds[Len(createdIds)]
  /\ resp.game[1].releaseYear = Null
  /\ resp.game[1].imageUrl = Null

\* C7: every stored record has a non-empty title and platform.
C7_RequiredFieldsNonEmpty ==
  \A i \in 1..Len(games) :
    /\ ~MissingOrEmpty(games[i].title)
    /\ ~MissingOrEmpty(games[i].platform)

\* An update succeeded on a store of two records.
C7_Witness ==
  /\ lastOp = "put"
  /\ resp.status = 200
  /\ Len(games) = 2

NoRecordHas(id) == \A i \in 1..Len(games) : ~IdMatches(games[i], id)

\* C8: GetById, Update and Delete of an id no record has answer 404 and
\* leave the store as it was.
C8_NotFoundLeavesStore ==
  [][(lastOp' \in {"get", "put", "delete"} /\ NoRecordHas(lastId'))
     => (/\ resp'.status = 404
         /\ resp'.error # ""
         /\ resp'.game = <<>>
         /\ games' = games
         /\ currentId' = currentId)]_vars

\* A delete of an id no record has was refused by a store holding records.
C8_Witness ==
  /\ lastOp = "delete"
  /\ resp.status = 404
  /\ Len(games) >= 1
  /\ \A i \in 1..Len(games) : ~IdMatches(games[i], lastId)

\* The value the claim gives a field after an update.
UpdatedAsClaimed(old, supplied) == IF ToBoolean(supplied) THEN supplied ELSE old

\* C9: a successful update overwrites each of the four fields exactly when
\* the supplied value is truthy, so a release year or image url that is set
\* is never put back to null, empty or zero.
C9_TruthyOverwrite ==
  [][(lastOp' = "put" /\ resp'.status = 200)
     => \E i \in 1..Len(games) :
          /\ IdMatches(games[i], lastId')
          /\ Len(games') = Len(games)
          /\ games'[i].title = UpdatedAsClaimed(games[i].title, lastBody'[1].title)
          /\ games'[i].platform = UpdatedAsClaimed(games[i].platform, lastBody'[1].platform)
          /\ games'[i].releaseYear =
               UpdatedAsClaimed(games[i].releaseYear, lastBody'[1].releaseYear)
          /\ games'[i].imageUrl = UpdatedAsClaimed(games[i].imageUrl, lastBody'[1].imageUrl)
          /\ ToBoolean(games[i].releaseYear) => ToBoolean(games'[i].releaseYear)
          /\ ToBoolean(games[i].imageUrl) => ToBoolean(games'[i].imageUrl)]_vars

\* An update that supplied a zero release year and a null image url left
\* both fields set, and overwrote the title.
C9_Witness ==
  /\ lastOp = "put"
  /\ resp.status = 200
  /\ Body.releaseYear = Num(0)
  /\ Body.imageUrl = Null
  /\ ToBoolean(Body.title)
  /\ resp.game[1].title = Body.title
  /\ resp.game[1].releaseYear = Num(1998)
  /\ resp.game[1].imageUrl = Str("u")

\* gs without its element at index i.
Without(gs, i) == [k \in 1..(Len(gs) - 1) |-> IF k < i THEN gs[k] ELSE gs[k + 1]]

C10_Ordered ==
  /\ \A i \in 1..Len(games) : games[i].id < currentId
  /\ \A i \in 1..Len(games) : \A j \in (i + 1)..Len(games) : games[i].id < games[j].id
  /\ lastOp = "list" => resp.list = games

C10_DeleteRemovesOne ==
  (lastOp' = "delete" /\ resp'.status = 200)
  => \E i \in 1..Len(games) :
       /\ IdMatches(games[i], lastId')
       /\ games' = Without(games, i)
       /\ resp'.game = <<games[i]>>

====
